---- MODULE Spec2Model ----
(***************************************************************************)
(* frmz: validate-then-clone-then-wrap form state with FormData rendering. *)
(*                                                                         *)
(* The JavaScript heap is modelled explicitly, because several properties  *)
(* are about object identity (aliasing with the caller's objects, identity *)
(* of Blob leaves).  A JS value is a record [t, v, px]:                     *)
(*   t = "string" | "number" | "boolean" | "null" | "undefined"  primitive *)
(*   t = "ref"     reference to heap object number v                       *)
(*   px            TRUE when the reference is a Proxy(target, handler)     *)
(*                 around heap object v (one or more Proxy layers: a       *)
(*                 Proxy has no state of its own, every layer runs the     *)
(*                 same set trap, so only "wrapped or not" is kept).       *)
(* A heap object is [kind, fields, bytes]; fields is the list of own       *)
(* enumerable properties in insertion order, an array holds its elements   *)
(* under the keys "0", "1", ...; bytes is the content of a Blob.           *)
(* Cyclic structures are outside the domain (README, Limitations).         *)
(***************************************************************************)
EXTENDS Integers, Sequences, FiniteSets, TLC

VARIABLES heap, initialData, schema, status, data, steps, rendered, last, nOps

vars == <<heap, initialData, schema, status, data, steps, rendered, last, nOps>>

\* ------------------------------------------------------------------ bounds
MaxOps == 2

\* ------------------------------------------------------------ JS values
PrimKinds == {"string", "number", "boolean", "null", "undefined"}

Prim(t, v) == [t |-> t, v |-> v, px |-> FALSE]

Ref(id) == [t |-> "ref", v |-> id, px |-> FALSE]

ProxyOf(id) == [t |-> "ref", v |-> id, px |-> TRUE]

Undefined == Prim("undefined", 0)

NoVal == [t |-> "none", v |-> 0, px |-> FALSE]

Field(k, x) == [key |-> k, val |-> x]

Obj(kind, fields) == [kind |-> kind, fields |-> fields, bytes |-> 0]

BlobObj(bytes) == [kind |-> "blob", fields |-> <<>>, bytes |-> bytes]

\* The string constants that occur as string values.
StrTab == <<"Bob", "a", "b", "invalid", "x@y.z">>

\* Which of them a z.string().email() check accepts.
WellFormedEmail == {5}

\* -------------------------------------------------------- number -> text
DigitStr == <<"0", "1", "2", "3", "4", "5", "6", "7", "8", "9">>

RECURSIVE NatStr(_)
NatStr(n) == IF n < 10 THEN DigitStr[n + 1]
             ELSE NatStr(n \div 10) \o DigitStr[(n % 10) + 1]

NumStr(n) == IF n < 0 THEN "-" \o NatStr(0 - n) ELSE NatStr(n)

\* ---------------------------------------------------------- type guards
isProxiable(x) == x.t = "ref"

isBlobLike(h, x) == x.t = "ref" /\ h[x.v].kind = "blob"

isArray(h, x) == x.t = "ref" /\ h[x.v].kind = "array"

\* ------------------------------------------------------- property access
HasKey(o, k) == \E i \in 1..Len(o.fields) : o.fields[i].key = k

KeyIndex(o, k) == CHOOSE i \in 1..Len(o.fields) : o.fields[i].key = k

\* value[key]; undefined for a missing property
Get(h, x, k) == IF HasKey(h[x.v], k) THEN h[x.v].fields[KeyIndex(h[x.v], k)].val
                ELSE Undefined

\* Reflect.set(target, property, value) on an ordinary extensible object
ReflectSet(h, id, k, x) ==
  LET o == h[id]
      fs == IF HasKey(o, k)
            THEN [o.fields EXCEPT ![KeyIndex(o, k)] = Field(k, x)]
            ELSE Append(o.fields, Field(k, x))
  IN [h EXCEPT ![id] = [o EXCEPT !.fields = fs]]

Alloc(h, o) == [h |-> Append(h, o), r |-> Ref(Len(h) + 1)]

\* ------------------------------------------------------------ zod schemas
\* A schema is [z, sub]: sub is the shape of z.object, the options of
\* z.union, the single element schema of z.array, empty otherwise.
Z(kind) == [z |-> kind, sub |-> <<>>]

SubSchema(k, s) == [key |-> k, s |-> s]

ZArray(elem) == [z |-> "array", sub |-> <<SubSchema("", elem)>>]

ZUnion(options) == [z |-> "union", sub |-> [i \in 1..Len(options) |-> SubSchema("", options[i])]]

ZObject(shape) == [z |-> "object", sub |-> shape]

NoSchema == Z("none")

\* --------------------------------------------------------- inferSchema
RECURSIVE inferSchema(_, _)

\* the if / else-if chain applied to each array item and each object value
inferMember(h, x) ==
  IF isProxiable(x) /\ ~isBlobLike(h, x) THEN inferSchema(h, x)
  ELSE IF isBlobLike(h, x) THEN Z("instanceofBlob")
  ELSE IF x.t = "string" THEN Z("string")
  ELSE IF x.t = "number" THEN Z("number")
  ELSE IF x.t = "boolean" THEN Z("boolean")
  ELSE IF x.t = "null" THEN Z("null")
  ELSE IF x.t = "undefined" THEN Z("undefined")
  ELSE Z("unknown")

inferSchema(h, x) ==
  IF isArray(h, x)
  THEN LET fs == h[x.v].fields
           elementTypes == [i \in 1..Len(fs) |-> inferMember(h, fs[i].val)]
       IN ZArray(IF Len(elementTypes) > 0 THEN ZUnion(elementTypes) ELSE Z("unknown"))
  ELSE IF isProxiable(x) /\ ~isBlobLike(h, x)
  THEN LET fs == h[x.v].fields
       IN ZObject([i \in 1..Len(fs) |-> SubSchema(fs[i].key, inferMember(h, fs[i].val))])
  ELSE IF isBlobLike(h, x) THEN Z("instanceofBlob")
  ELSE Z("unknown")

\* ------------------------------------------------- schema.parse (zod)
\* The result is [ok, h, r]: r is the parsed value, h the heap with the
\* objects the parse created.  z.object and z.array build a new object,
\* every other schema returns its input.
ParseFail(h) == [ok |-> FALSE, h |-> h, r |-> NoVal]

ParseOk(h, x) == [ok |-> TRUE, h |-> h, r |-> x]

RECURSIVE Parse(_, _, _)
RECURSIVE ParseItems(_, _, _, _)
RECURSIVE ParseShape(_, _, _, _, _)
RECURSIVE ParseUnion(_, _, _, _)

\* ZodArray: every item against the element schema, in index order
ParseItems(h, elem, items, acc) ==
  IF items = <<>> THEN [ok |-> TRUE, h |-> h, fields |-> acc]
  ELSE LET p == Parse(h, elem, Head(items).val)
       IN IF ~p.ok THEN [ok |-> FALSE, h |-> h, fields |-> <<>>]
          ELSE ParseItems(p.h, elem, Tail(items), Append(acc, Field(Head(items).key, p.r)))

\* ZodObject: the keys of the shape, in shape order; keys of the input that
\* the shape does not name are stripped
ParseShape(h, shape, x, i, acc) ==
  IF i > Len(shape) THEN [ok |-> TRUE, h |-> h, fields |-> acc]
  ELSE LET k == shape[i].key
           p == Parse(h, shape[i].s, Get(h, x, k))
       IN IF ~p.ok THEN [ok |-> FALSE, h |-> h, fields |-> <<>>]
          ELSE ParseShape(p.h, shape, x, i + 1,
                          IF HasKey(h[x.v], k) \/ p.r # Undefined
                          THEN Append(acc, Field(k, p.r)) ELSE acc)

\* ZodUnion: the result of the first option that accepts the input
ParseUnion(h, options, x, i) ==
  IF i > Len(options) THEN ParseFail(h)
  ELSE LET p == Parse(h, options[i].s, x)
       IN IF p.ok THEN p ELSE ParseUnion(h, options, x, i + 1)

Parse(h, s, x) ==
  CASE s.z \in {"any", "unknown"} -> ParseOk(h, x)
    [] s.z \in PrimKinds -> IF x.t = s.z THEN ParseOk(h, x) ELSE ParseFail(h)
    [] s.z = "email" -> IF x.t = "string" /\ x.v \in WellFormedEmail
                        THEN ParseOk(h, x) ELSE ParseFail(h)
    [] s.z = "instanceofBlob" -> IF isBlobLike(h, x) THEN ParseOk(h, x) ELSE ParseFail(h)
    [] s.z = "array" ->
         IF ~isArray(h, x) THEN ParseFail(h)
         ELSE LET p == ParseItems(h, s.sub[1].s, h[x.v].fields, <<>>)
              IN IF ~p.ok THEN ParseFail(h)
                 ELSE LET a == Alloc(p.h, Obj("array", p.fields))
                      IN ParseOk(a.h, a.r)
    [] s.z = "object" ->
         IF ~(isProxiable(x) /\ ~isArray(h, x)) THEN ParseFail(h)
         ELSE LET p == ParseShape(h, s.sub, x, 1, <<>>)
              IN IF ~p.ok THEN ParseFail(h)
                 ELSE LET a == Alloc(p.h, Obj("object", p.fields))
                      IN ParseOk(a.h, a.r)
    [] s.z = "union" -> ParseUnion(h, s.sub, x, 1)
    [] OTHER -> ParseFail(h)

\* ------------------------------------------------------ structuredClone
\* memo is the transfer map of the structured clone algorithm: an object
\* met twice is cloned once.  A Blob is a serializable platform object:
\* its clone is a new Blob with the same bytes.
MemoHas(memo, id) == \E m \in memo : m.old = id

MemoGet(memo, id) == (CHOOSE m \in memo : m.old = id).new

RECURSIVE Clone(_, _, _)
RECURSIVE CloneFields(_, _, _, _)

CloneFields(h, fs, acc, memo) ==
  IF fs = <<>> THEN [h |-> h, fields |-> acc, memo |-> memo]
  ELSE LET c == Clone(h, Head(fs).val, memo)
       IN CloneFields(c.h, Tail(fs), Append(acc, Field(Head(fs).key, c.r)), c.memo)

Clone(h, x, memo) ==
  IF x.t # "ref" THEN [h |-> h, r |-> x, memo |-> memo]
  ELSE IF MemoHas(memo, x.v) THEN [h |-> h, r |-> Ref(MemoGet(memo, x.v)), memo |-> memo]
  ELSE IF h[x.v].kind = "blob"
  THEN LET a == Alloc(h, BlobObj(h[x.v].bytes))
       IN [h |-> a.h, r |-> a.r, memo |-> memo \cup {[old |-> x.v, new |-> a.r.v]}]
  ELSE LET c == CloneFields(h, h[x.v].fields, <<>>, memo)
           a == Alloc(c.h, Obj(h[x.v].kind, c.fields))
       IN [h |-> a.h, r |-> a.r, memo |-> c.memo \cup {[old |-> x.v, new |-> a.r.v]}]

\* a plausible slip: no copy is taken
structuredClone_alias(h, x) == [h |-> h, r |-> x, memo |-> {}]

structuredClone(h, x) == Clone(h, x, {})

\* ------------------------------------------------------ createDeepProxy
\* Returns the heap after the loop; the caller holds ProxyOf(target).
RECURSIVE createDeepProxy(_, _)
RECURSIVE DeepProxyKeys(_, _, _)

DeepProxyKeys(h, id, i) ==
  IF i > Len(h[id].fields) THEN h
  ELSE LET f == h[id].fields[i]
       IN IF isProxiable(f.val) /\ ~isBlobLike(h, f.val)
          THEN DeepProxyKeys(ReflectSet(createDeepProxy(h, f.val), id, f.key, ProxyOf(f.val.v)),
                             id, i + 1)
          ELSE DeepProxyKeys(h, id, i + 1)

createDeepProxy(h, x) == DeepProxyKeys(h, x.v, 1)

\* --------------------------------------------------------- handler.set
\* a plausible slip: the value is stored as it is, never wrapped
handlerSet_noWrap(h, id, k, x) == [h |-> ReflectSet(h, id, k, x), ret |-> TRUE]

\* a plausible slip: the Blob test is missing, a Blob is wrapped like an object
handlerSet_wrapBlob(h, id, k, x) ==
  IF isProxiable(x)
  THEN [h |-> ReflectSet(createDeepProxy(h, x), id, k, ProxyOf(x.v)), ret |-> TRUE]
  ELSE [h |-> ReflectSet(h, id, k, x), ret |-> TRUE]

\* [h, ret]: the heap after the trap and the value the trap returns.
handlerSet(h, id, k, x) ==
  IF isProxiable(x) /\ ~isBlobLike(h, x)
  THEN [h |-> ReflectSet(createDeepProxy(h, x), id, k, ProxyOf(x.v)), ret |-> TRUE]
  ELSE [h |-> ReflectSet(h, id, k, x), ret |-> TRUE]

\* ------------------------------------------------------ appendToFormData
\* A FormData is the list of its entries in append order.  An entry holds
\* either text or a Blob (blob is the heap object number, 0 for text).
TextEntry(k, s) == [key |-> k, text |-> s, blob |-> 0]

BlobEntry(k, x) == [key |-> k, text |-> "", blob |-> x.v]

\* String(value) of a primitive
String(x) ==
  CASE x.t = "string" -> StrTab[x.v]
    [] x.t = "number" -> NumStr(x.v)
    [] x.t = "boolean" -> IF x.v = 1 THEN "true" ELSE "false"
    [] x.t = "null" -> "null"
    [] OTHER -> "undefined"

\* a plausible slip: the bracket is written even under an empty parent key
childKey_alwaysBracket(parentKey, key) == parentKey \o "[" \o key \o "]"

\* parentKey ? `${parentKey}[${key}]` : key
childKey(parentKey, key) ==
  IF parentKey # "" THEN parentKey \o "[" \o key \o "]" ELSE key

RECURSIVE appendToFormData(_, _, _, _)
RECURSIVE appendItems(_, _, _, _, _)
RECURSIVE appendEntries(_, _, _, _, _)

\* data.forEach((value, index) => ...)
appendItems(h, formData, items, index, parentKey) ==
  IF index >= Len(items) THEN formData
  ELSE LET value == items[index + 1].val
           key == childKey(parentKey, NumStr(index))
           fd == IF isProxiable(value) /\ ~isBlobLike(h, value)
                 THEN appendToFormData(h, formData, value, key)
                 ELSE IF isBlobLike(h, value) THEN Append(formData, BlobEntry(key, value))
                 ELSE Append(formData, TextEntry(key, String(value)))
       IN appendItems(h, fd, items, index + 1, parentKey)

\* for (const [key, value] of Object.entries(data))
appendEntries(h, formData, entries, i, parentKey) ==
  IF i > Len(entries) THEN formData
  ELSE LET key == entries[i].key
           value == entries[i].val
           newKey == childKey(parentKey, key)
           fd == IF isProxiable(value) /\ ~isBlobLike(h, value)
                 THEN appendToFormData(h, formData, value, newKey)
                 ELSE IF isBlobLike(h, value) THEN Append(formData, BlobEntry(newKey, value))
                 ELSE Append(formData, TextEntry(newKey, String(value)))
       IN appendEntries(h, fd, entries, i + 1, parentKey)

appendToFormData(h, formData, x, parentKey) ==
  IF isArray(h, x) THEN appendItems(h, formData, h[x.v].fields, 0, parentKey)
  ELSE IF isProxiable(x) /\ ~isBlobLike(h, x)
  THEN appendEntries(h, formData, h[x.v].fields, 1, parentKey)
  ELSE IF isBlobLike(h, x)
  THEN IF parentKey # "" THEN Append(formData, BlobEntry(parentKey, x)) ELSE formData
  ELSE IF parentKey # "" THEN Append(formData, TextEntry(parentKey, String(x))) ELSE formData

\* a plausible slip: the closure renders initialData instead of data
getFormData_ofInitialData(h, d) == appendToFormData(h, <<>>, initialData, "")

\* const getFormData = () => { ... }
getFormData(h, d) == appendToFormData(h, <<>>, d, "")

\* ------------------------------------------------------------------ frmz
\* a plausible slip: the schema argument is ignored
frmz_inferOnly(h, x, s) ==
  IF ~isProxiable(x)
  THEN [status |-> "RootTypeError", h |-> h, data |-> NoVal, steps |-> <<"rootCheck">>]
  ELSE LET parsed == Parse(h, inferSchema(h, x), x)
       IN IF ~parsed.ok
          THEN [status |-> "ZodError", h |-> h, data |-> NoVal,
                steps |-> <<"rootCheck", "schema", "parse">>]
          ELSE LET c == structuredClone(parsed.h, parsed.r)
               IN [status |-> "ok", h |-> createDeepProxy(c.h, c.r), data |-> ProxyOf(c.r.v),
                   steps |-> <<"rootCheck", "schema", "parse", "clone", "wrap">>]

\* The whole call: [status, h, data, steps].  steps lists the stages the
\* call went through before it returned or threw.
frmz(h, x, s) ==
  IF ~isProxiable(x)
  THEN [status |-> "RootTypeError", h |-> h, data |-> NoVal, steps |-> <<"rootCheck">>]
  ELSE LET actualSchema == IF s # NoSchema THEN s ELSE inferSchema(h, x)
           parsed == Parse(h, actualSchema, x)
       IN IF ~parsed.ok
          THEN [status |-> "ZodError", h |-> h, data |-> NoVal,
                steps |-> <<"rootCheck", "schema", "parse">>]
          ELSE LET c == structuredClone(parsed.h, parsed.r)
               IN [status |-> "ok", h |-> createDeepProxy(c.h, c.r), data |-> ProxyOf(c.r.v),
                   steps |-> <<"rootCheck", "schema", "parse", "clone", "wrap">>]

\* ------------------------------------------------- the caller's values
\* A literal of the calling program, as a tree [t, v, kids].
TPrim(t, v) == [t |-> t, v |-> v, kids |-> <<>>]

TNum(n) == TPrim("number", n)

TStr(i) == TPrim("string", i)

TBlob(id) == TPrim("blob", id)

TObj(kids) == [t |-> "object", v |-> 0, kids |-> kids]

TArr(items) == [t |-> "array", v |-> 0,
                kids |-> [i \in 1..Len(items) |-> Field(NumStr(i - 1), items[i])]]

RECURSIVE Build(_, _)
RECURSIVE BuildKids(_, _, _)

BuildKids(h, kids, acc) ==
  IF kids = <<>> THEN [h |-> h, fields |-> acc]
  ELSE LET b == Build(h, Head(kids).val)
       IN BuildKids(b.h, Tail(kids), Append(acc, Field(Head(kids).key, b.r)))

\* evaluates the literal: allocates its objects and arrays
Build(h, tr) ==
  IF tr.t \in PrimKinds THEN [h |-> h, r |-> Prim(tr.t, tr.v)]
  ELSE IF tr.t = "blob" THEN [h |-> h, r |-> Ref(tr.v)]
  ELSE LET b == BuildKids(h, tr.kids, <<>>)
       IN Alloc(b.h, Obj(tr.t, b.fields))

\* Two Blobs exist before the call (heap objects 1 and 2).
Blobs == <<BlobObj(1), BlobObj(2)>>

\* Two objects the caller holds and may assign into data:
\* { n: 1, c: ["a"] } and {}
CallerObjHeap == Build(Blobs, TObj(<<Field("n", TNum(1)), Field("c", TArr(<<TStr(2)>>))>>))

CallerObj == CallerObjHeap.r

CallerHeap == Build(CallerObjHeap.h, TObj(<<>>))

CallerEmpty == CallerHeap.r

InitialValues ==
  { TNum(1), TStr(2), TPrim("boolean", 1), TPrim("null", 0), TPrim("undefined", 0), TBlob(1),
    TObj(<<>>), TArr(<<>>),
    TObj(<<Field("n", TNum(1))>>),
    TObj(<<Field("user", TObj(<<Field("name", TStr(1))>>)),
           Field("tags", TArr(<<TStr(2), TStr(3)>>))>>),
    TArr(<<TObj(<<Field("a", TNum(1))>>), TObj(<<Field("a", TNum(1)), Field("b", TNum(2))>>)>>),
    TArr(<<TObj(<<Field("a", TNum(1)), Field("b", TNum(2))>>), TObj(<<Field("a", TNum(1))>>)>>),
    TArr(<<TObj(<<Field("a", TNum(1))>>), TObj(<<Field("b", TNum(2))>>)>>),
    TArr(<<TArr(<<>>), TArr(<<TNum(1)>>)>>),
    TArr(<<TPrim("null", 0), TPrim("undefined", 0), TPrim("boolean", 0), TNum(0 - 12)>>),
    TObj(<<Field("avatar", TBlob(1)), Field("documents", TArr(<<TBlob(1)>>))>>),
    TObj(<<Field("", TObj(<<Field("a", TNum(1))>>))>>),
    TObj(<<Field("email", TStr(4))>>),
    TObj(<<Field("email", TStr(5))>>) }

\* The schema argument: absent, or one of these.
Schemas ==
  { NoSchema, Z("any"),
    ZObject(<<SubSchema("n", Z("number"))>>),
    ZObject(<<SubSchema("email", Z("email"))>>) }

\* ----------------------------------------------------------- reachability
RECURSIVE ReachRefs(_, _)
\* the references to objects and arrays met when reading from x downwards
ReachRefs(h, x) ==
  IF ~(isProxiable(x) /\ ~isBlobLike(h, x)) THEN {}
  ELSE {x} \cup UNION { ReachRefs(h, h[x.v].fields[i].val) : i \in 1..Len(h[x.v].fields) }

ReachIds(h, x) == { r.v : r \in ReachRefs(h, x) }

\* ------------------------------------------------------------- the state
NoOp == [op |-> "none", ref |-> NoVal, key |-> "", val |-> NoVal, ret |-> TRUE]

Init ==
  /\ \E tr \in InitialValues :
       LET b == Build(CallerHeap.h, tr)
       IN heap = b.h /\ initialData = b.r
  /\ schema \in Schemas
  /\ status = "idle"
  /\ data = NoVal
  /\ steps = <<>>
  /\ rendered = <<>>
  /\ last = NoOp
  /\ nOps = 0

\* const { data, getFormData } = frmz(initialData, schema)
Construct ==
  /\ status = "idle"
  /\ LET c == frmz(heap, initialData, schema)
     IN /\ status' = c.status
        /\ heap' = c.h
        /\ data' = c.data
        /\ steps' = c.steps
  /\ last' = [NoOp EXCEPT !.op = "frmz"]
  /\ UNCHANGED <<initialData, schema, rendered, nOps>>

\* The keys a write is tried on: the first property, an index one past the
\* end of an array (push), a new property of an object.
TryKeys(h, id) ==
  (IF Len(h[id].fields) > 0 THEN {h[id].fields[1].key} ELSE {})
    \cup (IF h[id].kind = "array" THEN {NumStr(Len(h[id].fields))} ELSE {"x"})

\* The values a write stores: a number, a Blob, an object of the caller.
WriteValues == {Prim("number", 2), Ref(2), CallerObj, CallerEmpty}

\* container.field = value, container being data or read from data
Write ==
  /\ status = "ok"
  /\ nOps < MaxOps
  /\ \E c \in ReachRefs(heap, data) : \E k \in TryKeys(heap, c.v) : \E x \in WriteValues :
       /\ c.v \notin ReachIds(heap, x)
       /\ LET w == IF c.px THEN handlerSet(heap, c.v, k, x)
                   ELSE [h |-> ReflectSet(heap, c.v, k, x), ret |-> TRUE]
          IN /\ heap' = w.h
             /\ last' = [op |-> "write", ref |-> c, key |-> k, val |-> x, ret |-> w.ret]
  /\ nOps' = nOps + 1
  /\ UNCHANGED <<initialData, schema, status, data, steps, rendered>>

\* getFormData()
Render ==
  /\ status = "ok"
  /\ rendered' = getFormData(heap, data)
  /\ last' = [NoOp EXCEPT !.op = "render"]
  /\ UNCHANGED <<heap, initialData, schema, status, data, steps, nOps>>

\* The caller writes into an object of its own, not through data.
DirectSet(root, tag) ==
  /\ status = "ok"
  /\ nOps < MaxOps
  /\ \E id \in ReachIds(heap, root) : \E k \in TryKeys(heap, id) :
       /\ heap' = ReflectSet(heap, id, k, Prim("number", 9))
       /\ last' = [op |-> tag, ref |-> Ref(id), key |-> k, val |-> Prim("number", 9), ret |-> TRUE]
  /\ nOps' = nOps + 1
  /\ UNCHANGED <<initialData, schema, status, data, steps, rendered>>

MutateOriginal == DirectSet(initialData, "mutateOriginal")

MutateCallerObj == DirectSet(CallerObj, "mutateCallerObj")

Next == Construct \/ Write \/ Render \/ MutateOriginal \/ MutateCallerObj

Spec == Init /\ [][Next]_vars

\* ------------------------------------------------ what the claims speak of
\* The value read from x downwards, as a tree (a Blob by its identity).
RECURSIVE ReadTree(_, _)
ReadTree(h, x) ==
  IF x.t # "ref" THEN TPrim(x.t, x.v)
  ELSE IF h[x.v].kind = "blob" THEN TBlob(x.v)
  ELSE [t |-> h[x.v].kind, v |-> 0,
        kids |-> [i \in 1..Len(h[x.v].fields) |->
                    Field(h[x.v].fields[i].key, ReadTree(h, h[x.v].fields[i].val))]]

\* The leaves below x in depth-first order, each with its path.
RECURSIVE Leaves(_, _, _)
RECURSIVE LeavesFrom(_, _, _, _)

LeavesFrom(h, fs, i, path) ==
  IF i > Len(fs) THEN <<>>
  ELSE Leaves(h, fs[i].val, Append(path, fs[i].key)) \o LeavesFrom(h, fs, i + 1, path)

Leaves(h, x, path) ==
  IF isProxiable(x) /\ ~isBlobLike(h, x) THEN LeavesFrom(h, h[x.v].fields, 1, path)
  ELSE <<[path |-> path, val |-> x]>>

\* x[path[1]][path[2]]...
RECURSIVE ReadPath(_, _, _)
ReadPath(h, x, path) ==
  IF path = <<>> THEN x
  ELSE IF x.t # "ref" THEN Undefined
  ELSE ReadPath(h, Get(h, x, Head(path)), Tail(path))

\* first segment bare, every later segment in brackets
RECURSIVE BracketAll(_)
BracketAll(segs) ==
  IF segs = <<>> THEN "" ELSE "[" \o Head(segs) \o "]" \o BracketAll(Tail(segs))

PathKey(path) == Head(path) \o BracketAll(Tail(path))

\* a segment is in brackets exactly when the key built so far is not empty
RECURSIVE PrefixKey(_, _)
PrefixKey(prefix, segs) ==
  IF segs = <<>> THEN prefix
  ELSE PrefixKey(IF prefix # "" THEN prefix \o "[" \o Head(segs) \o "]" ELSE Head(segs),
                 Tail(segs))

LeafText(h, x) ==
  IF x.t = "string" THEN StrTab[x.v]
  ELSE IF x.t = "number" THEN NumStr(x.v)
  ELSE IF x.t = "boolean" THEN (IF x.v = 1 THEN "true" ELSE "false")
  ELSE x.t

LeafEntry(h, k, x) ==
  IF isBlobLike(h, x) THEN [key |-> k, text |-> "", blob |-> x.v]
  ELSE [key |-> k, text |-> LeafText(h, x), blob |-> 0]

Rendered == last.op = "render" /\ isProxiable(data) /\ ~isBlobLike(heap, data)

\* C5 as stated: one entry per leaf, depth first, keyed by the path with the
\* first segment bare and every later segment in brackets.
C5_FlattenKeyGrammar_AsClaimed ==
  Rendered =>
    LET ls == Leaves(heap, data, <<>>)
    IN rendered = [i \in 1..Len(ls) |-> LeafEntry(heap, PathKey(ls[i].path), ls[i].val)]

\* C5 (amended): getFormData() emits exactly one entry per non-container leaf
\* and none for a container, in depth-first order; the key of a leaf is built
\* along its path, a segment being put in brackets exactly when the key built
\* so far is not empty; a Blob leaf is emitted as the Blob, any other leaf as
\* its String() conversion.
C5_FlattenKeyGrammar ==
  Rendered =>
    LET ls == Leaves(heap, data, <<>>)
    IN rendered = [i \in 1..Len(ls) |-> LeafEntry(heap, PrefixKey("", ls[i].path), ls[i].val)]

C5_Witness ==
  /\ Rendered
  /\ rendered = << [key |-> "user[name]", text |-> "Bob", blob |-> 0],
                   [key |-> "tags[0]", text |-> "a", blob |-> 0],
                   [key |-> "tags[1]", text |-> "b", blob |-> 0] >>

\* ---------------------------------------------------------------- C1
Returned == status # "idle"

\* C1 as stated: every initial value that is not an object or array, a bare
\* Blob included, makes frmz throw the root-type error before any schema is
\* resolved, and no handle is returned.
C1_RootTypeGate_AsClaimed ==
  (Returned /\ ~(isProxiable(initialData) /\ ~isBlobLike(heap, initialData)))
    => (status = "RootTypeError" /\ steps = <<"rootCheck">> /\ data = NoVal)

\* ---------------------------------------------------------------- C2
\* structural equality: same kind, same set of properties with equal
\* values (property order apart), the same Blob
RECURSIVE StructEq(_, _, _)
StructEq(h, x, y) ==
  IF x.t # "ref" \/ y.t # "ref" THEN x.t = y.t /\ x.v = y.v
  ELSE IF h[x.v].kind = "blob" \/ h[y.v].kind = "blob" THEN x.v = y.v
  ELSE /\ h[x.v].kind = h[y.v].kind
       /\ {f.key : f \in {h[x.v].fields[i] : i \in 1..Len(h[x.v].fields)}}
            = {f.key : f \in {h[y.v].fields[i] : i \in 1..Len(h[y.v].fields)}}
       /\ \A i \in 1..Len(h[x.v].fields) :
            StructEq(h, h[x.v].fields[i].val, Get(h, y, h[x.v].fields[i].key))

AfterFrmz == last.op = "frmz"

\* C2 as stated: parsing an object or array against the schema inferred from
\* it succeeds and returns a structurally equal value.
C2_InferenceRoundTrip_AsClaimed ==
  (AfterFrmz /\ schema = NoSchema /\ isProxiable(initialData) /\ ~isBlobLike(heap, initialData))
    => LET p == Parse(heap, inferSchema(heap, initialData), initialData)
       IN p.ok /\ StructEq(p.h, p.r, initialData)

\* ---------------------------------------------------------------- C3
\* C3 as stated: a Blob leaf of the initial value is, at the same path of
\* data, the identical Blob.
C3_BlobIdentity_AsClaimed ==
  (AfterFrmz /\ status = "ok" /\ isProxiable(initialData) /\ ~isBlobLike(heap, initialData))
    => LET ls == Leaves(heap, initialData, <<>>)
       IN \A i \in 1..Len(ls) :
            isBlobLike(heap, ls[i].val) => ReadPath(heap, data, ls[i].path) = ls[i].val

\* ---------------------------------------------------------------- C4
\* C4: once frmz has returned, no object or array reachable from data is
\* one of the initial value's, whatever the schema, and a direct write into
\* the caller's initial value changes neither what is read from data nor
\* what getFormData() returns.
C4_IndependentOfOriginal ==
  [][ /\ (status' = "ok" =>
            ReachIds(heap', data') \cap ReachIds(heap', initialData') = {})
      /\ (last'.op = "mutateOriginal" =>
            /\ ReadTree(heap', data') = ReadTree(heap, data)
            /\ getFormData(heap', data') = getFormData(heap, data)) ]_vars

C4_Witness ==
  /\ last.op = "mutateOriginal"
  /\ schema = Z("any")
  /\ ReachIds(heap, data) # {}

\* ---------------------------------------------------------------- C6
\* flatten(container, prefix) over the value tree
RECURSIVE FlattenTree(_, _)
RECURSIVE FlattenKids(_, _, _)

FlattenKids(kids, i, prefix) ==
  IF i > Len(kids) THEN <<>>
  ELSE FlattenTree(kids[i].val,
                   IF prefix # "" THEN prefix \o "[" \o kids[i].key \o "]" ELSE kids[i].key)
         \o FlattenKids(kids, i + 1, prefix)

FlattenTree(tr, key) ==
  IF tr.t \in {"object", "array"} THEN FlattenKids(tr.kids, 1, key)
  ELSE IF tr.t = "blob" THEN <<[key |-> key, text |-> "", blob |-> tr.v]>>
  ELSE <<[key |-> key,
          text |-> CASE tr.t = "string" -> StrTab[tr.v]
                     [] tr.t = "number" -> NumStr(tr.v)
                     [] tr.t = "boolean" -> (IF tr.v = 1 THEN "true" ELSE "false")
                     [] OTHER -> tr.t,
          blob |-> 0]>>

\* C6: what getFormData() returns is the flattening of the state data has
\* when it is called, after any writes through data.
C6_LiveState ==
  Rendered => rendered = FlattenTree(ReadTree(heap, data), "")

C6_Witness ==
  /\ Rendered
  /\ nOps > 0
  /\ ReadTree(heap, initialData) = TObj(<<Field("n", TNum(1))>>)
  /\ rendered = <<[key |-> "n", text |-> "2", blob |-> 0]>>

\* ---------------------------------------------------------------- C7
\* C7: after construction and after any writes through data or a container
\* read from data, every reference to an object or array reachable from
\* data, data included, is a Proxy with the handler.
C7_WrapInvariant ==
  status = "ok" => \A r \in ReachRefs(heap, data) : r.px

C7_Witness ==
  /\ status = "ok"
  /\ last.op = "write"
  /\ last.ref.v = CallerObj.v
  /\ last.val = CallerEmpty
  /\ ReachIds(heap, data) \cap {CallerObj.v, CallerEmpty.v} = {CallerObj.v, CallerEmpty.v}

\* ---------------------------------------------------------------- C8
\* C8: a write through the handle reports success whatever the value, and
\* a primitive or a Blob is read back as the very value written.
C8_WriteSemantics ==
  (last.op = "write" /\ last.ref.px) =>
    /\ last.ret = TRUE
    /\ (~(isProxiable(last.val) /\ ~isBlobLike(heap, last.val))
          => Get(heap, last.ref, last.key) = last.val)

C8_Witness ==
  /\ last.op = "write" /\ last.ref.px
  /\ schema = ZObject(<<SubSchema("n", Z("number"))>>)
  /\ last.ref = data /\ last.key = "n" /\ last.val = Ref(2)

\* ---------------------------------------------------------------- C9
\* C9: the schema parsed against is the explicit one when given, else the
\* inferred one; a failed parse surfaces as the validator's error with no
\* clone, wrap or handle; a handle comes only after root check and parse
\* have passed, in that order.
C9_ValidationGate ==
  AfterFrmz =>
    LET eff == IF schema # NoSchema THEN schema ELSE inferSchema(heap, initialData)
        rootOk == isProxiable(initialData)
        parseOk == Parse(heap, eff, initialData).ok
    IN /\ status = (IF ~rootOk THEN "RootTypeError" ELSE IF ~parseOk THEN "ZodError" ELSE "ok")
       /\ status = "ZodError" => (data = NoVal /\ steps = <<"rootCheck", "schema", "parse">>)
       /\ status = "ok" => (data # NoVal
                            /\ steps = <<"rootCheck", "schema", "parse", "clone", "wrap">>)

C9_Witness ==
  /\ AfterFrmz
  /\ status = "ZodError"
  /\ schema = ZObject(<<SubSchema("email", Z("email"))>>)
  /\ ReadTree(heap, initialData) = TObj(<<Field("email", TStr(4))>>)

\* ---------------------------------------------------------------- C10
\* C10 as stated: a direct write into an object the caller holds, made
\* after the caller assigned that object into data, changes neither what
\* is read from data nor what getFormData() returns.
C10_ExclusiveOwnership_AsClaimed ==
  [][ last'.op = "mutateCallerObj" =>
        /\ ReadTree(heap', data') = ReadTree(heap, data)
        /\ getFormData(heap', data') = getFormData(heap, data) ]_vars
====
